---- MODULE Spec2Model ----
(***************************************************************************)
(* A model of the Pascal-like lexer of src/python/lexer.py.                *)
(*                                                                         *)
(* A text is a sequence of one-character strings.  The scanner state is    *)
(* the record [pos, current_char, lineno, column]; every method of Lexer   *)
(* is an operator from scanner states to scanner states (and a result),    *)
(* and one call of get_next_token is one step of the model.                *)
(***************************************************************************)
EXTENDS Integers, Sequences, FiniteSets, TLC

VARIABLES text, phase, pos, current_char, lineno, column, out

vars == <<text, phase, pos, current_char, lineno, column, out>>

(***************************************************************************)
(* Bounds of the model.                                                    *)
(***************************************************************************)
\* longest text enumerated over CoreAlphabet
MaxLen == 3
\* longest text enumerated over the whole Alphabet
MaxShort == 2
\* number of get_next_token calls on one scanner that leave the cursor in place
\* (calls that move it are bounded by the length of the text)
MaxIdle == 3
\* number of advance() calls made with the cursor already past the last character
MaxPast == 2

(***************************************************************************)
(* Characters.  None is Python's None, the value of current_char and of    *)
(* peek() past the last character; it is no one-character string.          *)
(***************************************************************************)
None == "None"

Digits == {"0", "1", "2", "3", "4", "5", "6", "7", "8", "9"}

UpperLetters ==
    {"A", "B", "C", "D", "E", "F", "G", "H", "I", "J", "K", "L", "M",
     "N", "O", "P", "Q", "R", "S", "T", "U", "V", "W", "X", "Y", "Z"}

LowerLetters ==
    {"a", "b", "c", "d", "e", "f", "g", "h", "i", "j", "k", "l", "m",
     "n", "o", "p", "q", "r", "s", "t", "u", "v", "w", "x", "y", "z"}

Letters == UpperLetters \cup LowerLetters

Whitespace == {" ", "\t", "\n", "\r"}

\* a whitespace test that knows blanks and tabs only
isspace_blank(ch) == ch \in {" ", "\t"}

\* str.isspace, str.isdigit, str.isalpha, str.isalnum on one ASCII character
isspace(ch) == ch \in Whitespace

isdigit(ch) == ch \in Digits

str_isalpha(ch) == ch \in Letters

isalnum(ch) == ch \in Letters \cup Digits

\* Lexer.isalpha: alphanumeric or underscore
isalpha(ch) == isalnum(ch) \/ ch = "_"

(***************************************************************************)
(* Token values.  A token value is an int, a float, a str, a TokenType or  *)
(* None; all are records of one shape.  A float is num / 10^scale.         *)
(***************************************************************************)
IntVal(n) == [kind |-> "int", num |-> n, scale |-> 0, str |-> <<>>, type |-> "-"]

RealVal(n, k) == [kind |-> "float", num |-> n, scale |-> k, str |-> <<>>, type |-> "-"]

StrVal(s) == [kind |-> "str", num |-> 0, scale |-> 0, str |-> s, type |-> "-"]

TypeVal(t) == [kind |-> "type", num |-> 0, scale |-> 0, str |-> <<>>, type |-> t]

NoneVal == [kind |-> "None", num |-> 0, scale |-> 0, str |-> <<>>, type |-> "-"]

\* Token.__init__
Token(type, value, line, col) ==
    [type |-> type, value |-> value, line |-> line, col |-> col]

NoToken == Token("-", NoneVal, 0, 0)

NoMsg == [lexeme |-> "-", lineno |-> 0, column |-> 0]

\* the outcome of a call: a returned token, or a raised exception
Returned(tok) == [raised |-> "-", token |-> tok, msg |-> NoMsg]

Raised(exc, msg) == [raised |-> exc, token |-> NoToken, msg |-> msg]

\* the scanner's mutable fields as one record
State(p, c, l, k) == [pos |-> p, current_char |-> c, lineno |-> l, column |-> k]

Self == State(pos, current_char, lineno, column)

(***************************************************************************)
(* int(result) of a digit string                                           *)
(***************************************************************************)
DigitVal(ch) ==
    CASE ch = "0" -> 0 [] ch = "1" -> 1 [] ch = "2" -> 2 [] ch = "3" -> 3
      [] ch = "4" -> 4 [] ch = "5" -> 5 [] ch = "6" -> 6 [] ch = "7" -> 7
      [] ch = "8" -> 8 [] ch = "9" -> 9

RECURSIVE int(_)
int(result) ==
    IF Len(result) = 0 THEN 0
    ELSE 10 * int(SubSeq(result, 1, Len(result) - 1)) + DigitVal(result[Len(result)])

(***************************************************************************)
(* A lookup that folds the word to upper case first (str.upper), as a      *)
(* case-insensitive keyword table would.                                   *)
(***************************************************************************)
UpperOf ==
    [ch \in LowerLetters |->
        CASE ch = "a" -> "A" [] ch = "b" -> "B" [] ch = "c" -> "C" [] ch = "d" -> "D"
          [] ch = "e" -> "E" [] ch = "f" -> "F" [] ch = "g" -> "G" [] ch = "h" -> "H"
          [] ch = "i" -> "I" [] ch = "j" -> "J" [] ch = "k" -> "K" [] ch = "l" -> "L"
          [] ch = "m" -> "M" [] ch = "n" -> "N" [] ch = "o" -> "O" [] ch = "p" -> "P"
          [] ch = "q" -> "Q" [] ch = "r" -> "R" [] ch = "s" -> "S" [] ch = "t" -> "T"
          [] ch = "u" -> "U" [] ch = "v" -> "V" [] ch = "w" -> "W" [] ch = "x" -> "X"
          [] ch = "y" -> "Y" [] ch = "z" -> "Z"]

upper(result) ==
    [k \in 1..Len(result) |->
        IF result[k] \in LowerLetters THEN UpperOf[result[k]] ELSE result[k]]

reserved_keywords_fold(result) ==
    LET w == upper(result)
    IN  CASE w = <<"P", "R", "O", "G", "R", "A", "M">> -> "PROGRAM"
          [] w = <<"I", "N", "T", "E", "G", "E", "R">> -> "INTEGER"
          [] w = <<"R", "E", "A", "L">> -> "REAL"
          [] w = <<"D", "I", "V">> -> "INTEGER_DIV"
          [] w = <<"V", "A", "R">> -> "VAR"
          [] w = <<"P", "R", "O", "C", "E", "D", "U", "R", "E">> -> "PROCEDURE"
          [] w = <<"B", "E", "G", "I", "N">> -> "BEGIN"
          [] w = <<"E", "N", "D">> -> "END"
          [] OTHER -> "IDENT"

(***************************************************************************)
(* Lexer.reserved_keywords.get(result, TokenType.IDENT)                    *)
(***************************************************************************)
reserved_keywords(result) ==
    CASE result = <<"P", "R", "O", "G", "R", "A", "M">> -> "PROGRAM"
      [] result = <<"I", "N", "T", "E", "G", "E", "R">> -> "INTEGER"
      [] result = <<"R", "E", "A", "L">> -> "REAL"
      [] result = <<"D", "I", "V">> -> "INTEGER_DIV"
      [] result = <<"V", "A", "R">> -> "VAR"
      [] result = <<"P", "R", "O", "C", "E", "D", "U", "R", "E">> -> "PROCEDURE"
      [] result = <<"B", "E", "G", "I", "N">> -> "BEGIN"
      [] result = <<"E", "N", "D">> -> "END"
      [] OTHER -> "IDENT"

(***************************************************************************)
(* Lexer.error: the message carries current_char, lineno and column        *)
(***************************************************************************)
error(s) ==
    Raised("Exception",
           [lexeme |-> s.current_char, lineno |-> s.lineno, column |-> s.column])

(***************************************************************************)
(* Lexer.advance                                                           *)
(***************************************************************************)
advance(s) ==
    LET p == s.pos + 1
        c == IF p > Len(text) - 1 THEN None ELSE text[p + 1]
    IN  State(p, c,
              IF c = "\n" THEN s.lineno + 1 ELSE s.lineno,
              IF c = "\n" THEN 1 ELSE s.column)

(***************************************************************************)
(* Lexer.peek                                                              *)
(***************************************************************************)
peek(s) ==
    LET peek_pos == s.pos + 1
    IN  IF peek_pos > Len(text) - 1 THEN None ELSE text[peek_pos + 1]

(***************************************************************************)
(* Lexer.skip_whitespace                                                   *)
(***************************************************************************)
RECURSIVE skip_whitespace(_)
skip_whitespace(s) ==
    IF s.current_char # None /\ isspace(s.current_char)
    THEN skip_whitespace(advance(s))
    ELSE s

(***************************************************************************)
(* Lexer.skip_comments: [s, r] where r is the raised error, if any         *)
(***************************************************************************)
RECURSIVE skip_to_rbrace(_)
skip_to_rbrace(s) ==
    IF s.current_char # None /\ s.current_char # "}"
    THEN skip_to_rbrace(advance(s))
    ELSE s

\* skip_comments that lets comments nest: an inner '{' needs its own '}'
RECURSIVE skip_nested(_, _)
skip_nested(s, depth) ==
    IF s.current_char = None THEN s
    ELSE IF s.current_char = "}" /\ depth = 1 THEN s
    ELSE skip_nested(advance(s),
                     IF s.current_char = "{" THEN depth + 1
                     ELSE IF s.current_char = "}" THEN depth - 1
                     ELSE depth)

skip_comments_nested(s) ==
    LET t == skip_nested(s, 0)
    IN  IF t.current_char = None
        THEN [s |-> t, r |-> error(t)]
        ELSE [s |-> advance(t), r |-> Returned(NoToken)]

\* skip_comments without its end-of-text test: it eats past the end instead
skip_comments_unchecked(s) ==
    [s |-> advance(skip_to_rbrace(s)), r |-> Returned(NoToken)]

skip_comments(s) ==
    LET t == skip_to_rbrace(s)
    IN  IF t.current_char = None
        THEN [s |-> t, r |-> error(t)]
        ELSE [s |-> advance(t), r |-> Returned(NoToken)]

(***************************************************************************)
(* Lexer.new_token                                                         *)
(***************************************************************************)
new_token(s, type, value) ==
    Token(type, IF value = NoneVal THEN TypeVal(type) ELSE value, s.lineno, s.column)

(***************************************************************************)
(* Lexer.number                                                            *)
(***************************************************************************)
\* the loop "while current_char is a digit: result += current_char; advance()"
RECURSIVE scan_digits(_, _)
scan_digits(s, result) ==
    IF s.current_char # None /\ isdigit(s.current_char)
    THEN scan_digits(advance(s), Append(result, s.current_char))
    ELSE [s |-> s, result |-> result]

\* number() that leaves the '.' out of result: float("12") for "1.2"
number_nodot(s) ==
    LET a == scan_digits(s, <<>>)
    IN  IF a.s.current_char = "."
        THEN IF peek(a.s) = None
             THEN [s |-> a.s, r |-> Raised("AttributeError", NoMsg)]
             ELSE IF isdigit(peek(a.s))
             THEN LET b == scan_digits(advance(a.s), <<>>)
                  IN  [s |-> b.s,
                       r |-> Returned(new_token(b.s, "REAL_CONST",
                                 RealVal(int(a.result \o b.result), 0)))]
             ELSE [s |-> a.s,
                   r |-> Returned(new_token(a.s, "INTEGER_CONST", IntVal(int(a.result))))]
        ELSE [s |-> a.s,
              r |-> Returned(new_token(a.s, "INTEGER_CONST", IntVal(int(a.result))))]

number(s) ==
    LET a == scan_digits(s, <<>>)
    IN  IF a.s.current_char = "."
        THEN IF peek(a.s) = None
             THEN \* None.isdigit()
                  [s |-> a.s, r |-> Raised("AttributeError", NoMsg)]
             ELSE IF isdigit(peek(a.s))
             THEN LET b == scan_digits(advance(a.s), <<>>)
                  IN  [s |-> b.s,
                       r |-> Returned(new_token(b.s, "REAL_CONST",
                                 RealVal(int(a.result \o b.result), Len(b.result))))]
             ELSE [s |-> a.s,
                   r |-> Returned(new_token(a.s, "INTEGER_CONST", IntVal(int(a.result))))]
        ELSE [s |-> a.s,
              r |-> Returned(new_token(a.s, "INTEGER_CONST", IntVal(int(a.result))))]

(***************************************************************************)
(* Lexer.identifier: the loop tests str.isalpha, not Lexer.isalpha         *)
(***************************************************************************)
RECURSIVE scan_word(_, _)
scan_word(s, result) ==
    IF s.current_char # None /\ str_isalpha(s.current_char)
    THEN scan_word(advance(s), Append(result, s.current_char))
    ELSE [s |-> s, result |-> result]

identifier(s) ==
    LET a == scan_word(s, <<>>)
    IN  [s |-> a.s,
         r |-> Returned(new_token(a.s, reserved_keywords(a.result), StrVal(a.result)))]

(***************************************************************************)
(* Lexer.get_next_token, branch by branch                                  *)
(***************************************************************************)
\* "self.advance(); return self.new_token(type)"
single_char(s, type) ==
    LET t == advance(s)
    IN  [s |-> t, r |-> Returned(new_token(t, type, NoneVal))]

\* a ':' branch that eats two characters whatever follows the ':'
colon_eager(s) ==
    LET t == advance(advance(s))
    IN  [s |-> t, r |-> Returned(new_token(t, IF peek(s) = "=" THEN "ASSIGN" ELSE "COLON", NoneVal))]

\* a ':' branch without lookahead
colon_single(s) == single_char(s, "COLON")

\* the ':' branch: peek() decides before anything is consumed
colon(s) ==
    IF peek(s) = "="
    THEN LET t == advance(advance(s))
         IN  [s |-> t, r |-> Returned(new_token(t, "ASSIGN", NoneVal))]
    ELSE single_char(s, "COLON")

\* the '<', '>' and '!' branches testing current_char before the advance
compare_op_stale(s, single, compound) ==
    LET t == advance(s)
    IN  IF s.current_char = "="
        THEN [s |-> advance(t), r |-> Returned(new_token(advance(t), compound, NoneVal))]
        ELSE [s |-> t, r |-> Returned(new_token(t, single, NoneVal))]

\* the '<', '>' and '!' branches: advance, then test the new current_char
compare_op(s, single, compound) ==
    LET t == advance(s)
    IN  IF t.current_char = "="
        THEN single_char(t, compound)
        ELSE [s |-> t, r |-> Returned(new_token(t, single, NoneVal))]

\* an end-of-input branch that rewinds the cursor, so that the text is scanned again
eof_rewind(s) ==
    [s |-> State(0, text[1], 1, 1), r |-> Returned(Token("EOF", NoneVal, 0, 0))]

\* "return Token(TokenType.EOF, None)" once current_char is None
eof(s) == [s |-> s, r |-> Returned(Token("EOF", NoneVal, 0, 0))]

\* an illegal-character branch that steps over the character before it raises
illegal_skip(s) == [s |-> advance(s), r |-> error(s)]

\* "self.error()" at the end of the if-chain: nothing is consumed
illegal(s) == [s |-> s, r |-> error(s)]

\* the if-chain after the whitespace and comment branches
classify(s) ==
    LET c == s.current_char
    IN  CASE isdigit(c) -> number(s)
          [] ~isdigit(c) /\ isalpha(c) -> identifier(s)
          [] c = "+" -> single_char(s, "PLUS")
          [] c = "-" -> single_char(s, "MINUS")
          [] c = "*" -> single_char(s, "MUL")
          [] c = "/" -> single_char(s, "FLOAT_DIV")
          [] c = "(" -> single_char(s, "LPAREN")
          [] c = ")" -> single_char(s, "RPAREN")
          [] c = ";" -> single_char(s, "SEMI")
          [] c = "." -> single_char(s, "DOT")
          [] c = ":" -> colon(s)
          [] c = "," -> single_char(s, "COMMA")
          [] c = "<" -> compare_op(s, "LESS", "LESS_EQUAL")
          [] c = ">" -> compare_op(s, "GREATER", "GREATER_EQUAL")
          [] c = "!" -> compare_op(s, "BANG", "BANG_EQUAL")
          [] OTHER -> illegal(s)

RECURSIVE get_next_token(_)
get_next_token(s) ==
    IF s.current_char = None THEN eof(s)
    ELSE IF isspace(s.current_char) THEN get_next_token(skip_whitespace(s))
    ELSE IF s.current_char = "{"
    THEN LET c == skip_comments(s)
         IN  IF c.r.raised # "-" THEN c ELSE get_next_token(c.s)
    ELSE classify(s)

(***************************************************************************)
(* The texts a scanner is constructed from.                                *)
(***************************************************************************)
CoreAlphabet ==
    {"E", "N", "D", "e", "1", "0", ".", "_", " ", "\n", "{", "}", ":", "="}

Alphabet ==
    CoreAlphabet \cup
    {"x", "2", "\t", "+", "-", "*", "/", "(", ")", ";", ",", "<", ">", "!", "@"}

StringsOver(S, n) == UNION {[1..k -> S] : k \in 0..n}

SampleTexts ==
    { <<"P", "R", "O", "G", "R", "A", "M">>,
      <<"I", "N", "T", "E", "G", "E", "R">>,
      <<"R", "E", "A", "L">>,
      <<"D", "I", "V">>,
      <<"V", "A", "R">>,
      <<"P", "R", "O", "C", "E", "D", "U", "R", "E">>,
      <<"B", "E", "G", "I", "N">>,
      <<"B", "e", "g", "i", "n">>,
      <<"b", "e", "g", "i", "n">>,
      <<"B", "E", "G", "I", "N", "S">>,
      <<"B", "E", "G", "I", "N", " ", "B", "e", "g", "i", "n", " ", "b", "e", "g", "i", "n", " ", "E", "N", "D">>,
      <<"V", "A", "R", " ", "x", ":", "R", "E", "A", "L", ";">>,
      <<"x", " ", ":", "=", " ", "(", "a", " ", "+", " ", "b", ")", " ", "*", " ", "2", ";">>,
      <<"1", ".", "2", ".", "3">>,
      <<"3", ".", "1", "4">>,
      <<"{", " ", "a", " ", "{", " ", "}", "x", "}">>,
      <<"{", " ", "a", "n", "y">> }

Texts == StringsOver(CoreAlphabet, MaxLen) \cup StringsOver(Alphabet, MaxShort) \cup SampleTexts

(***************************************************************************)
(* The state machine.  phase is "new" before Lexer(text) has run, "ready"  *)
(* once it returned, "failed" when it raised.  out is the outcome of each  *)
(* get_next_token call so far, in order, with the cursor before and after. *)
(***************************************************************************)
Call(before, c) ==
    [raised |-> c.r.raised, token |-> c.r.token, msg |-> c.r.msg,
     pos0 |-> before.pos, pos1 |-> c.s.pos]

\* the calls so far that left the cursor where it was
Idle == {i \in 1..Len(out) : out[i].pos1 = out[i].pos0}

Init ==
    /\ text \in Texts
    /\ phase = "new"
    /\ pos = 0
    /\ current_char = None
    /\ lineno = 1
    /\ column = 1
    /\ out = <<>>

\* Lexer.__init__: text[0] of the empty text raises IndexError
LexerInit ==
    /\ phase = "new"
    /\ IF Len(text) = 0
       THEN /\ phase' = "failed"
            /\ UNCHANGED <<pos, current_char, lineno, column>>
       ELSE /\ phase' = "ready"
            /\ pos' = 0
            /\ current_char' = text[1]
            /\ lineno' = 1
            /\ column' = 1
    /\ UNCHANGED <<text, out>>

\* one call of Lexer.get_next_token, returning or raising
GetNextToken ==
    /\ phase = "ready"
    /\ Cardinality(Idle) < MaxIdle
    /\ LET c == get_next_token(Self)
       IN  /\ pos' = c.s.pos
           /\ current_char' = c.s.current_char
           /\ lineno' = c.s.lineno
           /\ column' = c.s.column
           /\ out' = Append(out, Call(Self, c))
    /\ UNCHANGED <<text, phase>>

Next == LexerInit \/ GetNextToken

Spec == Init /\ [][Next]_vars

\* one call of Lexer.advance by the client, whatever the current character
Advance ==
    /\ phase = "ready"
    /\ pos < Len(text) + MaxPast
    /\ LET s == advance(Self)
       IN  /\ pos' = s.pos
           /\ current_char' = s.current_char
           /\ lineno' = s.lineno
           /\ column' = s.column
    /\ UNCHANGED <<text, phase, out>>

\* a client that constructs the scanner and drives the cursor by advance() alone
NextAdvance == LexerInit \/ Advance

SpecAdvance == Init /\ [][NextAdvance]_vars

(***************************************************************************)
(* Vocabulary of the properties.  Positions are 0-based like pos: the      *)
(* character at position p is text[p + 1].                                 *)
(***************************************************************************)
IsToken(o) == o.raised = "-"

IsEOF(o) == IsToken(o) /\ o.token.type = "EOF"

At(p) == IF p >= 0 /\ p < Len(text) THEN text[p + 1] ELSE None

\* the end of the maximal run of characters of S that starts at p
RunEnd(p, S) ==
    CHOOSE q \in p..Len(text) :
        /\ \A r \in p..(q - 1) : At(r) \in S
        /\ At(q) \notin S

\* Where a scan that starts at p meets its first character that is neither
\* whitespace nor part of a closed comment: Len(text) when there is none,
\* -1 when it meets a '{' that no '}' follows.
RECURSIVE Significant(_)
Significant(p) ==
    IF p >= Len(text) THEN Len(text)
    ELSE IF At(p) \in Whitespace THEN Significant(p + 1)
    ELSE IF At(p) = "{"
    THEN LET close == {q \in (p + 1)..(Len(text) - 1) : At(q) = "}"}
         IN  IF close = {} THEN -1
             ELSE Significant(1 + CHOOSE q \in close : \A r \in close : q <= r)
    ELSE p

\* the position of the first character of the lexeme that call i classifies
TokenStart(i) == Significant(out[i].pos0)

Calls == 1..Len(out)

(***************************************************************************)
(* C1: every call of get_next_token that returns a token other than EOF    *)
(* has moved the cursor forward by at least one character.                 *)
(***************************************************************************)
C1_EveryTokenAdvances ==
    \A i \in Calls :
        (IsToken(out[i]) /\ ~IsEOF(out[i])) => out[i].pos1 > out[i].pos0

(***************************************************************************)
(* C2: once a call has returned EOF, every later call returns EOF: it      *)
(* neither raises nor returns another kind.                                *)
(***************************************************************************)
C2_EOFIsSticky ==
    \A i \in Calls : \A j \in Calls :
        (i < j /\ IsEOF(out[i])) => (IsEOF(out[j]) /\ out[j].pos1 = out[i].pos1)

C2_Witness ==
    /\ Len(out) >= 4
    /\ IsToken(out[1]) /\ ~IsEOF(out[1])
    /\ \A j \in 2..4 : IsEOF(out[j])

(***************************************************************************)
(* C3: Lexer("") succeeds and the first call returns EOF.                  *)
(***************************************************************************)
C3_EmptyTextYieldsEOF ==
    (Len(text) = 0 /\ phase # "new") =>
        /\ phase = "ready"
        /\ Len(out) >= 1 => IsEOF(out[1])

(***************************************************************************)
(* C4: a call that starts on digits followed by a '.' that no digit        *)
(* follows (another character, or the end of the text) returns             *)
(* INTEGER_CONST for the digits with the cursor on the '.', and the next   *)
(* call returns DOT.                                                       *)
(***************************************************************************)
C4_TrailingDotLeftForNextCall ==
    \A i \in Calls :
        LET p == TokenStart(i)
            q == RunEnd(p, Digits)
        IN  (p >= 0 /\ At(p) \in Digits /\ At(q) = "." /\ At(q + 1) \notin Digits) =>
                /\ IsToken(out[i])
                /\ out[i].token.type = "INTEGER_CONST"
                /\ out[i].pos1 = q
                /\ (i + 1) \in Calls =>
                       /\ IsToken(out[i + 1])
                       /\ out[i + 1].token.type = "DOT"
                       /\ out[i + 1].pos1 = q + 1

(***************************************************************************)
(* C5: for a text that begins with digits d1..dn not followed by '.' and   *)
(* a digit, the first call returns INTEGER_CONST with the decimal value of *)
(* d1..dn and leaves the cursor on the character after dn.                 *)
(***************************************************************************)
RECURSIVE Pow10(_)
Pow10(k) == IF k = 0 THEN 1 ELSE 10 * Pow10(k - 1)

RECURSIVE Decimal(_)
Decimal(ds) ==
    IF ds = <<>> THEN 0
    ELSE DigitVal(Head(ds)) * Pow10(Len(ds) - 1) + Decimal(Tail(ds))

C5_IntegerLiteralValue ==
    LET q == RunEnd(0, Digits)
    IN  (Len(out) >= 1 /\ At(0) \in Digits
         /\ ~(At(q) = "." /\ At(q + 1) \in Digits)) =>
            /\ IsToken(out[1])
            /\ out[1].token.type = "INTEGER_CONST"
            /\ out[1].token.value = IntVal(Decimal(SubSeq(text, 1, q)))
            /\ out[1].pos1 = q
            /\ (Len(out) = 1 => (pos = q /\ current_char = At(q)))

(***************************************************************************)
(* C6: on ':', '<', '>' or '!' a call consumes two characters and returns  *)
(* the compound kind when '=' follows, and otherwise consumes one          *)
(* character and returns the single kind, the next character being left    *)
(* for the next call.                                                      *)
(***************************************************************************)
SingleKind(ch) ==
    CASE ch = ":" -> "COLON" [] ch = "<" -> "LESS"
      [] ch = ">" -> "GREATER" [] ch = "!" -> "BANG"

CompoundKind(ch) ==
    CASE ch = ":" -> "ASSIGN" [] ch = "<" -> "LESS_EQUAL"
      [] ch = ">" -> "GREATER_EQUAL" [] ch = "!" -> "BANG_EQUAL"

C6_LookaheadOperators ==
    \A i \in Calls :
        LET p == TokenStart(i)
            n == IF At(p + 1) = "=" THEN 2 ELSE 1
        IN  (p >= 0 /\ At(p) \in {":", "<", ">", "!"}) =>
                /\ IsToken(out[i])
                /\ out[i].token.type =
                       IF n = 2 THEN CompoundKind(At(p)) ELSE SingleKind(At(p))
                /\ out[i].token.value = TypeVal(out[i].token.type)
                /\ out[i].pos1 = p + n
                /\ (i = Len(out)) => (pos = p + n /\ current_char = At(p + n))

C6_Witness ==
    /\ text = <<":", "=", ":">>
    /\ Len(out) = 2
    /\ out[1].token.type = "ASSIGN" /\ out[1].pos1 = 2
    /\ out[2].token.type = "COLON" /\ out[2].pos1 = 3

(***************************************************************************)
(* C7: on '+', '-', '*', '/', '(', ')', '}', ';', '.' or ',' outside a     *)
(* comment a call consumes one character and returns the kind of that      *)
(* character, without raising.                                             *)
(***************************************************************************)
CharKind(ch) ==
    CASE ch = "+" -> "PLUS" [] ch = "-" -> "MINUS" [] ch = "*" -> "MUL"
      [] ch = "/" -> "FLOAT_DIV" [] ch = "(" -> "LPAREN" [] ch = ")" -> "RPAREN"
      [] ch = "}" -> "RBRACE" [] ch = ";" -> "SEMI" [] ch = "." -> "DOT"
      [] ch = "," -> "COMMA"

C7_SingleCharacterTokens ==
    \A i \in Calls :
        LET p == TokenStart(i)
        IN  (p >= 0 /\ At(p) \in {"+", "-", "*", "/", "(", ")", "}", ";", ".", ","}) =>
                /\ IsToken(out[i])
                /\ out[i].token.type = CharKind(At(p))
                /\ out[i].pos1 = p + 1

(***************************************************************************)
(* C8: on a letter a call returns one token whose text is the maximal run  *)
(* of alphanumeric or underscore characters that starts at the letter.     *)
(***************************************************************************)
KeywordKinds ==
    {"PROGRAM", "INTEGER", "REAL", "INTEGER_DIV", "VAR", "PROCEDURE", "BEGIN", "END"}

C8_IdentifierMaximalRun ==
    \A i \in Calls :
        LET p == TokenStart(i)
            q == RunEnd(p, Letters \cup Digits \cup {"_"})
        IN  (p >= 0 /\ At(p) \in Letters) =>
                /\ IsToken(out[i])
                /\ out[i].token.type \in KeywordKinds \cup {"IDENT"}
                /\ out[i].token.value = StrVal(SubSeq(text, p + 1, q))
                /\ out[i].pos1 = q

(***************************************************************************)
(* C9: a scanned word spelled exactly PROGRAM, VAR, BEGIN, END, PROCEDURE, *)
(* INTEGER, REAL or DIV gets the kind of that keyword; every other word,   *)
(* a differently-cased spelling included, gets IDENT; the value of the     *)
(* token is the scanned text.                                              *)
(***************************************************************************)
KeywordTable ==
    { <<"PROGRAM", <<"P", "R", "O", "G", "R", "A", "M">>>>,
      <<"VAR", <<"V", "A", "R">>>>,
      <<"BEGIN", <<"B", "E", "G", "I", "N">>>>,
      <<"END", <<"E", "N", "D">>>>,
      <<"PROCEDURE", <<"P", "R", "O", "C", "E", "D", "U", "R", "E">>>>,
      <<"INTEGER", <<"I", "N", "T", "E", "G", "E", "R">>>>,
      <<"REAL", <<"R", "E", "A", "L">>>>,
      <<"INTEGER_DIV", <<"D", "I", "V">>>> }

C9_KeywordLookupIsExact ==
    \A i \in Calls :
        LET p == TokenStart(i)
            word == SubSeq(text, p + 1, out[i].pos1)
        IN  (p >= 0 /\ At(p) \in Letters \cup {"_"}) =>
                /\ IsToken(out[i])
                /\ out[i].token.value = StrVal(word)
                /\ \A kw \in KeywordTable :
                       (out[i].token.type = kw[1]) <=> (word = kw[2])
                /\ (out[i].token.type = "IDENT") <=>
                       (\A kw \in KeywordTable : word # kw[2])

C9_Witness ==
    /\ Len(out) = 4
    /\ out[1].token.type = "BEGIN"
    /\ out[2].token = Token("IDENT", StrVal(<<"B", "e", "g", "i", "n">>), 1, 1)
    /\ out[3].token = Token("IDENT", StrVal(<<"b", "e", "g", "i", "n">>), 1, 1)
    /\ out[4].token.type = "END"

(***************************************************************************)
(* C10: a call that reaches a '{' which no '}' follows raises the lexer    *)
(* error at the end of the text; it returns no token, EOF included.        *)
(***************************************************************************)
C10_UnterminatedCommentRaises ==
    \A i \in Calls :
        TokenStart(i) = -1 =>
            /\ out[i].raised = "Exception"
            /\ out[i].msg.lexeme = None
            /\ out[i].token = NoToken
            /\ out[i].pos1 = Len(text)

C10_Witness ==
    /\ text = <<"{", "}", "{">>
    /\ Len(out) = 1
    /\ out[1].raised = "Exception"

(***************************************************************************)
(* Source positions: the 1-based line and column of the character at       *)
(* position p of the text.                                                 *)
(***************************************************************************)
NewlinesBefore(p) == {r \in 0..(p - 1) : At(r) = "\n"}

LineOf(p) == 1 + Cardinality(NewlinesBefore(p))

ColumnOf(p) ==
    IF NewlinesBefore(p) = {} THEN 1 + p
    ELSE p - (CHOOSE n \in NewlinesBefore(p) : \A r \in NewlinesBefore(p) : r <= n)

(***************************************************************************)
(* C11: the error raised on an illegal character or an unterminated        *)
(* comment carries the offending character (None at the end of the text)   *)
(* with the 1-based line and column of that character.                     *)
(***************************************************************************)
C11_ErrorCarriesPosition ==
    \A i \in Calls :
        out[i].raised = "Exception" =>
            /\ out[i].msg.lexeme = At(out[i].pos1)
            /\ out[i].msg.lineno = LineOf(out[i].pos1)
            /\ out[i].msg.column = ColumnOf(out[i].pos1)

(***************************************************************************)
(* C12: on digits, a '.' and at least one digit a call returns REAL_CONST  *)
(* for the digits, the '.' and the maximal digit run after it, with the    *)
(* cursor on the character after that run; a second '.' is not part of the *)
(* literal and is the next call's DOT.                                     *)
(***************************************************************************)
C12_RealLiteral ==
    \A i \in Calls :
        LET p == TokenStart(i)
            q == RunEnd(p, Digits)
            e == RunEnd(q + 1, Digits)
        IN  (p >= 0 /\ At(p) \in Digits /\ At(q) = "." /\ At(q + 1) \in Digits) =>
                /\ IsToken(out[i])
                /\ out[i].token.type = "REAL_CONST"
                /\ out[i].token.value =
                       RealVal(Decimal(SubSeq(text, p + 1, q) \o SubSeq(text, q + 2, e)),
                               e - (q + 1))
                /\ out[i].pos1 = e
                /\ (i = Len(out)) => (pos = e /\ current_char = At(e))
                /\ (At(e) = "." /\ (i + 1) \in Calls) =>
                       /\ IsToken(out[i + 1])
                       /\ out[i + 1].token.type = "DOT"
                       /\ out[i + 1].pos1 = e + 1

C12_Witness ==
    /\ text = <<"1", ".", "2", ".", "3">>
    /\ Len(out) = 3
    /\ out[1].token.type = "REAL_CONST" /\ out[1].token.value = RealVal(12, 1)
    /\ out[2].token.type = "DOT"
    /\ out[3].token.type = "INTEGER_CONST" /\ out[3].token.value = IntVal(3)

(***************************************************************************)
(* C13: the calls on "x := (a + b) * 2;" return, in order, IDENT x,        *)
(* ASSIGN, LPAREN, IDENT a, PLUS, IDENT b, RPAREN, MUL, INTEGER_CONST 2,   *)
(* SEMI and EOF: no error, no other token.                                 *)
(***************************************************************************)
AssignmentText ==
    <<"x", " ", ":", "=", " ", "(", "a", " ", "+", " ", "b", ")", " ", "*", " ", "2", ";">>

AssignmentTokens ==
    << <<"IDENT", StrVal(<<"x">>)>>, <<"ASSIGN", TypeVal("ASSIGN")>>,
       <<"LPAREN", TypeVal("LPAREN")>>, <<"IDENT", StrVal(<<"a">>)>>,
       <<"PLUS", TypeVal("PLUS")>>, <<"IDENT", StrVal(<<"b">>)>>,
       <<"RPAREN", TypeVal("RPAREN")>>, <<"MUL", TypeVal("MUL")>>,
       <<"INTEGER_CONST", IntVal(2)>>, <<"SEMI", TypeVal("SEMI")>>,
       <<"EOF", NoneVal>> >>

C13_AssignmentTokenSequence ==
    text = AssignmentText =>
        \A i \in Calls :
            LET k == IF i < Len(AssignmentTokens) THEN i ELSE Len(AssignmentTokens)
            IN  /\ IsToken(out[i])
                /\ <<out[i].token.type, out[i].token.value>> = AssignmentTokens[k]

C13_Witness ==
    /\ text = AssignmentText
    /\ Len(out) = Len(AssignmentTokens)
    /\ IsEOF(out[Len(out)])
    /\ \A i \in 1..(Len(out) - 1) : ~IsEOF(out[i])

(***************************************************************************)
(* C14: on a non-empty text of spaces, tabs and newlines only, the first   *)
(* call returns EOF.                                                       *)
(***************************************************************************)
C14_WhitespaceOnlyYieldsEOF ==
    (Len(text) > 0 /\ (\A k \in 1..Len(text) : text[k] \in {" ", "\t", "\n"})
     /\ Len(out) >= 1) =>
        /\ IsEOF(out[1])
        /\ out[1].pos1 = Len(text)

C14_Witness ==
    /\ text = <<"\t", "\n">>
    /\ Len(out) = 1
    /\ IsEOF(out[1])
    /\ pos = 2 /\ current_char = None

(***************************************************************************)
(* C15: after any number of advance() calls from the initial state, lineno *)
(* is 1 plus the number of newlines consumed and column is 1 plus the      *)
(* number of characters consumed since the last consumed newline.          *)
(***************************************************************************)
Consumed == IF pos < Len(text) THEN pos ELSE Len(text)

C15_LineColumnTracking ==
    phase = "ready" =>
        /\ lineno = LineOf(Consumed)
        /\ column = ColumnOf(Consumed)

(***************************************************************************)
(* C16: in every state that calls of get_next_token reach on a non-empty   *)
(* text, also through calls that raise, 0 <= pos <= len(text) and          *)
(* current_char is text[pos], or None when pos = len(text).                *)
(***************************************************************************)
C16_CursorInvariant ==
    phase = "ready" =>
        /\ 0 <= pos /\ pos <= Len(text)
        /\ current_char = At(pos)

C16_Witness ==
    /\ Len(out) = 2
    /\ out[1].raised = "Exception" /\ out[1].pos0 < out[1].pos1
    /\ IsEOF(out[2])
    /\ pos = Len(text) /\ current_char = None

(***************************************************************************)
(* C17: advance() with current_char already None changes none of pos,      *)
(* current_char, lineno and column.                                        *)
(***************************************************************************)
C17_AdvanceAtEndIsNoOp ==
    [][(phase = "ready" /\ current_char = None)
           => UNCHANGED <<pos, current_char, lineno, column>>]_vars

(***************************************************************************)
(* C18: a comment ends at the first '}' after its '{', whatever lies       *)
(* between, the '}' is consumed, and the call goes on to classify the      *)
(* first character after it that is neither whitespace nor in a further    *)
(* comment: the comment itself yields no token.                            *)
(***************************************************************************)
KindsAt(ch) ==
    IF ch \in Digits THEN {"INTEGER_CONST", "REAL_CONST"}
    ELSE IF ch \in Letters \cup {"_"} THEN KeywordKinds \cup {"IDENT"}
    ELSE IF ch \in {"+", "-", "*", "/", "(", ")", ";", ".", ","} THEN {CharKind(ch)}
    ELSE IF ch \in {":", "<", ">", "!"} THEN {SingleKind(ch), CompoundKind(ch)}
    ELSE {}

\* call i starts on a comment, or on whitespace that leads to one
PassesComment(i) ==
    /\ TokenStart(i) >= 0
    /\ \E r \in out[i].pos0..(TokenStart(i) - 1) : At(r) = "{"

C18_CommentsEndAtFirstBrace ==
    \A i \in Calls :
        LET p == TokenStart(i)
        IN  PassesComment(i) =>
                /\ At(p - 1) \in Whitespace \cup {"}"}
                /\ out[i].pos1 >= p
                /\ IsEOF(out[i]) <=> (p = Len(text))
                /\ (IsToken(out[i]) /\ p < Len(text)) => out[i].token.type \in KindsAt(At(p))
                /\ (out[i].raised = "Exception") =>
                       (out[i].msg.lexeme = At(p) /\ out[i].pos1 = p)
                /\ (i = Len(out)) => (pos = out[i].pos1 /\ current_char = At(pos))

C18_Witness ==
    /\ text = <<"{", " ", "a", " ", "{", " ", "}", "x", "}">>
    /\ Len(out) = 2
    /\ out[1].token = Token("IDENT", StrVal(<<"x">>), 1, 1) /\ out[1].pos1 = 8
    /\ out[2].raised = "Exception" /\ out[2].msg.lexeme = "}"

(***************************************************************************)
(* C19: every IDENT or keyword token has a non-empty text that starts with *)
(* a letter, and a '_' at a token start never yields such a token.         *)
(***************************************************************************)
C19_IdentifiersStartWithLetter ==
    \A i \in Calls :
        (IsToken(out[i]) /\ out[i].token.type \in KeywordKinds \cup {"IDENT"}) =>
            /\ out[i].token.value.kind = "str"
            /\ Len(out[i].token.value.str) >= 1
            /\ out[i].token.value.str[1] \in Letters
            /\ At(TokenStart(i)) # "_"

(***************************************************************************)
(* C20: an illegal-character error leaves the scanner on the offending     *)
(* character with current_char, lineno and column as reported, and the     *)
(* next call raises the same error on the same character.                  *)
(***************************************************************************)
C20_IllegalCharacterIsNotSkipped ==
    \A i \in Calls :
        (out[i].raised = "Exception" /\ out[i].msg.lexeme # None) =>
            /\ out[i].pos1 = TokenStart(i)
            /\ At(out[i].pos1) = out[i].msg.lexeme
            /\ (i = Len(out)) =>
                   /\ pos = out[i].pos1
                   /\ current_char = out[i].msg.lexeme
                   /\ lineno = out[i].msg.lineno
                   /\ column = out[i].msg.column
            /\ (i + 1) \in Calls =>
                   /\ out[i + 1].raised = "Exception"
                   /\ out[i + 1].msg = out[i].msg
                   /\ out[i + 1].pos0 = out[i].pos1
                   /\ out[i + 1].pos1 = out[i].pos1

C20_Witness ==
    /\ Len(out) = 3
    /\ IsToken(out[1])
    /\ out[2].raised = "Exception" /\ out[2].msg.lexeme = "=" /\ out[2].pos0 < out[2].pos1
    /\ out[3].raised = "Exception" /\ out[3].msg = out[2].msg
    /\ pos = out[2].pos1 /\ current_char = "="

====
